---- MODULE Spec2Model ----
(***************************************************************************)
(* DollHouse (src/dollhouse.py): an RSS feed of media releases is parsed   *)
(* into release records, new releases are persisted, and every wishlist    *)
(* entry is matched against the recent releases; matching episodes are     *)
(* downloaded and recorded in the downloads table.                         *)
(*                                                                         *)
(* Text is modelled as a sequence of one-character strings, so that        *)
(* splitting, trimming, substring search, case folding and lexicographic   *)
(* comparison are computed the way the code and SQLite compute them.       *)
(* Python's None (SQL NULL) is the one-element sequence None, which is no  *)
(* text because its element is not a single character.                     *)
(***************************************************************************)
EXTENDS Integers, Sequences, FiniteSets, TLC

(***************************************************************************)
(* Characters and strings                                                  *)
(***************************************************************************)

\* The printable ASCII characters in code order, from code 32 (space).  The
\* double quote, backslash and backtick, which no text of the model holds, are
\* named rather than written.
Ascii ==
  << " ", "!", "<quote>", "#", "$", "%", "&", "'", "(", ")", "*", "+", ",", "-", ".", "/",
     "0", "1", "2", "3", "4", "5", "6", "7", "8", "9", ":", ";", "<", "=", ">", "?",
     "@", "A", "B", "C", "D", "E", "F", "G", "H", "I", "J", "K", "L", "M", "N", "O",
     "P", "Q", "R", "S", "T", "U", "V", "W", "X", "Y", "Z", "[", "<backslash>", "]", "^", "_",
     "<backtick>", "a", "b", "c", "d", "e", "f", "g", "h", "i", "j", "k", "l", "m", "n", "o",
     "p", "q", "r", "s", "t", "u", "v", "w", "x", "y", "z", "{", "|", "}", "~" >>

Chars == { Ascii[i] : i \in 1..Len(Ascii) }

\* Position of a character in Ascii (its code minus 31).
Ord == [ c \in Chars |-> CHOOSE i \in 1..Len(Ascii) : Ascii[i] = c ]

\* The lower-case letter of every upper-case letter.
ToLower ==
  [ A |-> "a", B |-> "b", C |-> "c", D |-> "d", E |-> "e", F |-> "f",
    G |-> "g", H |-> "h", I |-> "i", J |-> "j", K |-> "k", L |-> "l",
    M |-> "m", N |-> "n", O |-> "o", P |-> "p", Q |-> "q", R |-> "r",
    S |-> "s", T |-> "t", U |-> "u", V |-> "v", W |-> "w", X |-> "x",
    Y |-> "y", Z |-> "z" ]

\* ASCII case folding, as done by re.IGNORECASE and by COLLATE NOCASE.
LowerChar(c) == IF c \in DOMAIN ToLower THEN ToLower[c] ELSE c

Lower(s) == [ i \in 1..Len(s) |-> LowerChar(s[i]) ]

Digits == { "0", "1", "2", "3", "4", "5", "6", "7", "8", "9" }

IsDigit(c) == c \in Digits

\* Whitespace as str.strip() and \s see it (the model's texts hold no other).
IsSpace(c) == c = " "

\* Python's None / SQL NULL.
None == << "None" >>

\* x in y for Python strings: x occurs in y as a contiguous substring.
Contains(y, x) ==
  \E i \in 1..(Len(y) - Len(x) + 1) : SubSeq(y, i, i + Len(x) - 1) = x

\* Binary (memcmp) order of two texts: a < b.
StrLess(a, b) ==
  \/ /\ Len(a) < Len(b)
     /\ SubSeq(b, 1, Len(a)) = a
  \/ \E i \in 1..Len(a) :
        /\ i <= Len(b)
        /\ SubSeq(a, 1, i - 1) = SubSeq(b, 1, i - 1)
        /\ Ord[a[i]] < Ord[b[i]]

\* a = b COLLATE NOCASE
EqNoCase(a, b) == Lower(a) = Lower(b)

\* a >= b COLLATE NOCASE
GeNoCase(a, b) == ~ StrLess(Lower(a), Lower(b))

\* str.strip(): drop leading and trailing whitespace.
RECURSIVE LStrip(_)
LStrip(s) == IF s # << >> /\ IsSpace(Head(s)) THEN LStrip(Tail(s)) ELSE s

RECURSIVE RStrip(_)
RStrip(s) ==
  IF s # << >> /\ IsSpace(s[Len(s)]) THEN RStrip(SubSeq(s, 1, Len(s) - 1)) ELSE s

Strip(s) == RStrip(LStrip(s))

(***************************************************************************)
(* Regular expressions of the wishlist filters.  A pattern is a text whose *)
(* characters are literals, except "." (any character) and "(" which, as   *)
(* the model's patterns never close it, makes re.compile raise re.error.   *)
(***************************************************************************)

Compiles(expr) == \A i \in 1..Len(expr) : expr[i] # "("

MatchAt(expr, item, i) ==
  /\ i + Len(expr) - 1 <= Len(item)
  /\ \A k \in 1..Len(expr) :
        \/ expr[k] = "."
        \/ LowerChar(expr[k]) = LowerChar(item[i + k - 1])

\* A mutant of regexp: the pattern is searched case-sensitively.
regexpCaseSensitive(expr, item) ==
  \E i \in 1..(Len(item) + 1) :
     /\ i + Len(expr) - 1 <= Len(item)
     /\ \A k \in 1..Len(expr) : expr[k] = "." \/ expr[k] = item[i + k - 1]

\* DollHouse.regexp for a pattern that compiles: re.search, ignoring case.
regexp(expr, item) == \E i \in 1..(Len(item) + 1) : MatchAt(expr, item, i)

\* Python truthiness of an optional text: None and "" are falsy.
Truthy(x) == x # None /\ x # << >>

\* A mutant of check_if_continue_props: every test is by truth value, so
\* an empty pattern counts as absent, like None.
check_if_continue_props_EmptyAbsent(tags, includeprops, excludeprops) ==
  IF ~ Truthy(includeprops) /\ ~ Truthy(excludeprops) THEN "True"
  ELSE IF Truthy(includeprops) /\ Truthy(excludeprops)
    THEN IF ~ Compiles(includeprops) THEN "raise"
         ELSE IF ~ regexp(includeprops, tags) THEN "False"
         ELSE IF ~ Compiles(excludeprops) THEN "raise"
         ELSE IF regexp(excludeprops, tags) THEN "False" ELSE "True"
  ELSE IF Truthy(includeprops)
    THEN IF ~ Compiles(includeprops) THEN "raise"
         ELSE IF regexp(includeprops, tags) THEN "True" ELSE "False"
  ELSE IF ~ Compiles(excludeprops) THEN "raise"
       ELSE IF regexp(excludeprops, tags) THEN "False" ELSE "True"

\* DollHouse.check_if_continue_props: "True", "False", or "raise" when a
\* pattern that the code reaches fails to compile (re.error propagates).
check_if_continue_props(tags, includeprops, excludeprops) ==
  IF includeprops = None /\ excludeprops = None THEN "True"
  ELSE IF Truthy(includeprops) /\ Truthy(excludeprops)
    THEN \* line 90; with both present no later branch applies
         IF ~ Compiles(includeprops) THEN "raise"
         ELSE IF ~ regexp(includeprops, tags) THEN "False"
         ELSE IF ~ Compiles(excludeprops) THEN "raise"
         ELSE IF regexp(excludeprops, tags) THEN "False" ELSE "True"
  ELSE IF Truthy(includeprops) /\ excludeprops = None
    THEN \* line 93
         IF ~ Compiles(includeprops) THEN "raise"
         ELSE IF regexp(includeprops, tags) THEN "True" ELSE "False"
  ELSE IF Truthy(excludeprops) /\ includeprops = None
    THEN \* line 97
         IF ~ Compiles(excludeprops) THEN "raise"
         ELSE IF regexp(excludeprops, tags) THEN "False" ELSE "True"
  ELSE "False"

(***************************************************************************)
(* parse_feed: title splitting and quality                                 *)
(***************************************************************************)

\* Index of the last character of the maximal run of digits starting at i
\* (i - 1 when s[i] is no digit).
RECURSIVE DigitRunEnd(_, _)
DigitRunEnd(s, i) ==
  IF i <= Len(s) /\ IsDigit(s[i]) THEN DigitRunEnd(s, i + 1) ELSE i - 1

RECURSIVE SpaceRunEnd(_, _)
SpaceRunEnd(s, i) ==
  IF i <= Len(s) /\ IsSpace(s[i]) THEN SpaceRunEnd(s, i + 1) ELSE i - 1

\* S[0-9]+E[0-9]+ matched at position i: index of the match's last
\* character, 0 when there is no match at i.  The pattern is case-sensitive.
EpisodeMatchEnd(s, i) ==
  IF i > Len(s) \/ s[i] # "S" THEN 0
  ELSE LET j == DigitRunEnd(s, i + 1)
       IN  IF j < i + 1 \/ j + 1 > Len(s) \/ s[j + 1] # "E" THEN 0
           ELSE LET k == DigitRunEnd(s, j + 2)
                IN  IF k < j + 2 THEN 0 ELSE k

\* (?:\s+|\.) matched at position i: index of its last character, 0 if none.
SepMatchEnd(s, i) ==
  IF i > Len(s) THEN 0
  ELSE IF IsSpace(s[i]) THEN SpaceRunEnd(s, i)
  ELSE IF s[i] = "." THEN i
  ELSE 0

AllDigits(s, i, j) == j <= Len(s) /\ \A k \in i..j : IsDigit(s[k])

\* [0-9]{4}(?:\s+|\.)[0-9]{2}(?:\s+|\.)[0-9]{2} matched at position i.
DateMatchEnd(s, i) ==
  IF ~ AllDigits(s, i, i + 3) THEN 0
  ELSE LET a == SepMatchEnd(s, i + 4)
       IN  IF a = 0 \/ ~ AllDigits(s, a + 1, a + 2) THEN 0
           ELSE LET b == SepMatchEnd(s, a + 3)
                IN  IF b = 0 \/ ~ AllDigits(s, b + 1, b + 2) THEN 0
                    ELSE b + 2

\* The two patterns parse_feed splits on, matched at position i: index of
\* the match's last character, 0 when there is no match at i.
MatchEnd(pattern, s, i) ==
  IF pattern = "episode" THEN EpisodeMatchEnd(s, i) ELSE DateMatchEnd(s, i)

\* A mutant of ReSplit: the text is split at the first match only, as with
\* maxsplit=1.
ReSplit_Once(pattern, s) ==
  IF \A i \in 1..Len(s) : MatchEnd(pattern, s, i) = 0 THEN << s >>
  ELSE LET i == CHOOSE x \in 1..Len(s) :
                   /\ MatchEnd(pattern, s, x) # 0
                   /\ \A y \in 1..(x - 1) : MatchEnd(pattern, s, y) = 0
           k == MatchEnd(pattern, s, i)
       IN  << SubSeq(s, 1, i - 1), SubSeq(s, i, k), SubSeq(s, k + 1, Len(s)) >>

\* re.split with one capturing group: the texts between the matches and
\* the matches themselves, in order.
RECURSIVE ReSplit(_, _)
ReSplit(pattern, s) ==
  IF \A i \in 1..Len(s) : MatchEnd(pattern, s, i) = 0 THEN << s >>
  ELSE LET i == CHOOSE x \in 1..Len(s) :
                   /\ MatchEnd(pattern, s, x) # 0
                   /\ \A y \in 1..(x - 1) : MatchEnd(pattern, s, y) = 0
           k == MatchEnd(pattern, s, i)
       IN  << SubSeq(s, 1, i - 1), SubSeq(s, i, k) >>
             \o ReSplit(pattern, SubSeq(s, k + 1, Len(s)))

\* A mutant of StripAll: the segments are kept as split.
StripAll_NoStrip(parts) == parts

StripAll(parts) == [ n \in 1..Len(parts) |-> Strip(parts[n]) ]

\* A mutant of Quality: 720p is looked for before 1080p.
Quality720First(tags) ==
  IF Contains(tags, << "7", "2", "0", "p" >>) THEN << "7", "2", "0", "p" >>
  ELSE IF Contains(tags, << "1", "0", "8", "0", "p" >>)
         THEN << "1", "0", "8", "0", "p" >>
  ELSE << "U", "n", "k", "n", "o", "w", "n" >>

\* The quality of an episodic record: set to Unknown (line 185), then
\* overwritten by the loop of lines 193-197.
Quality(tags) ==
  IF Contains(tags, << "1", "0", "8", "0", "p" >>)
    THEN << "1", "0", "8", "0", "p" >>
  ELSE IF Contains(tags, << "7", "2", "0", "p" >>) THEN << "7", "2", "0", "p" >>
  ELSE << "U", "n", "k", "n", "o", "w", "n" >>

\* The interpreters that run the script: map() returns a list under Python
\* 2 and an iterator, which cannot be indexed, under Python 3.
Interpreters == { "python2", "python3" }

\* One pass of the loop of lines 155-188 over a record of the first loop:
\* kind is "show" (appended to allshows), "movie", or "raise" (TypeError at
\* line 172 when map() returned an iterator).
ParseShow(show, python) ==
  LET part == StripAll(ReSplit("episode", show.title))
      seriespart == ReSplit("date", part[1])
      episodic(t, e, g) ==
        [ kind |-> "show", title |-> t, episode |-> e, tags |-> g,
          category |-> show.category, link |-> show.link, date |-> show.date,
          quality |-> Quality(g) ]
  IN  IF Len(part) = 1
        THEN IF Len(seriespart) = 1
               THEN [ kind |-> "movie", title |-> show.title,
                      category |-> show.category, link |-> show.link,
                      date |-> show.date ]
             ELSE IF python = "python3"
               THEN [ kind |-> "raise" ]
             ELSE episodic(Strip(seriespart[1]), Strip(seriespart[2]),
                           Strip(seriespart[3]))
      ELSE episodic(part[1], part[2], part[3])

\* DollHouse.parse_feed: the lists allshows and movies, or raised.
parse_feed(feed, python) ==
  LET parsed == [ n \in 1..Len(feed) |-> ParseShow(feed[n], python) ]
      IsShow(r) == r.kind = "show"
      IsMovie(r) == r.kind = "movie"
  IN  [ raised |-> \E n \in 1..Len(parsed) : parsed[n].kind = "raise",
        shows |-> SelectSeq(parsed, IsShow),
        movies |-> SelectSeq(parsed, IsMovie) ]

(***************************************************************************)
(* The store: tables releases, downloads and wishlist                      *)
(***************************************************************************)

\* Width of the recency window in days: datetime('now', '-3 days').
WindowDays == 3

Range(f) == { f[x] : x \in DOMAIN f }

\* A mutant of check_if_show_exists: the links are compared as spelled.
check_if_show_exists_CaseSensitive(rel, link) ==
  \E n \in 1..Len(rel) : rel[n].link = link

\* DollHouse.check_if_show_exists: some release has this link, ignoring case
\* (rel is the releases table the connection sees).
check_if_show_exists(rel, link) ==
  \E n \in 1..Len(rel) : EqNoCase(rel[n].link, link)

\* A mutant of add_release: a row with the same title and episode, ignoring
\* case, is overwritten (an upsert) instead of a new row being inserted.
add_release_Upsert(rel, show) ==
  IF \E n \in 1..Len(rel) : /\ EqNoCase(rel[n].title, show.title)
                            /\ EqNoCase(rel[n].episode, show.episode)
    THEN [ n \in 1..Len(rel) |->
             IF /\ EqNoCase(rel[n].title, show.title)
                /\ EqNoCase(rel[n].episode, show.episode)
               THEN [ id |-> n, title |-> show.title,
                      episode |-> show.episode, quality |-> show.quality,
                      tags |-> show.tags, category |-> show.category,
                      date |-> show.date, link |-> show.link ]
               ELSE rel[n] ]
    ELSE Append(rel, [ id |-> Len(rel) + 1, title |-> show.title,
                       episode |-> show.episode, quality |-> show.quality,
                       tags |-> show.tags, category |-> show.category,
                       date |-> show.date, link |-> show.link ])

\* DollHouse.add_release: a new row with the next id.
add_release(rel, show) ==
  Append(rel, [ id |-> Len(rel) + 1, title |-> show.title,
                episode |-> show.episode, quality |-> show.quality,
                tags |-> show.tags, category |-> show.category,
                date |-> show.date, link |-> show.link ])

\* The loop of __main__ over shows: every show whose link is not yet
\* persisted is inserted and committed, in feed order.
RECURSIVE IngestShows(_, _)
IngestShows(rel, shows) ==
  IF shows = << >> THEN rel
  ELSE IngestShows(IF check_if_show_exists(rel, Head(shows).link)
                     THEN rel
                     ELSE add_release(rel, Head(shows)),
                   Tail(shows))

\* The links of the shows that the loop does not insert although no
\* persisted link is spelled the same: check_if_show_exists found a link
\* that differs in case only.
RECURSIVE SkippedLinks(_, _)
SkippedLinks(rel, shows) ==
  IF shows = << >> THEN { }
  ELSE IF check_if_show_exists(rel, Head(shows).link)
    THEN (IF \E n \in 1..Len(rel) : rel[n].link = Head(shows).link
            THEN { }
            ELSE { Head(shows).link })
         \cup SkippedLinks(rel, Tail(shows))
  ELSE SkippedLinks(add_release(rel, Head(shows)), Tail(shows))

\* A mutant of check_to_download: title and episode are compared as spelled.
check_to_download_CaseSensitive(dl, title, episode) ==
  ~ \E n \in 1..Len(dl) : dl[n].title = title /\ dl[n].episode = episode

\* A mutant of check_to_download: the episode is left out of the query, a
\* Download row of any episode of the title counts.
check_to_download_TitleOnly(dl, title, episode) ==
  ~ \E n \in 1..Len(dl) : EqNoCase(dl[n].title, title)

\* DollHouse.check_to_download: no Download row has this title and episode,
\* ignoring case (dl is the downloads table the connection sees).
check_to_download(dl, title, episode) ==
  ~ \E n \in 1..Len(dl) :
        EqNoCase(dl[n].title, title) /\ EqNoCase(dl[n].episode, episode)

\* DollHouse.add_downloads
add_downloads(dl, title, episode, release_id) ==
  Append(dl, [ id |-> Len(dl) + 1, title |-> title, episode |-> episode,
               release_id |-> release_id ])

\* A mutant of Selected: the floor is compared as spelled (no COLLATE NOCASE).
SelectedFloorCaseSensitive(r, wish, t) ==
  LET min_episode == IF wish.min_episode = None THEN << >>
                     ELSE wish.min_episode
  IN  /\ EqNoCase(r.title, wish.title)
      /\ r.date > t - WindowDays
      /\ ~ StrLess(r.episode, min_episode)

\* A mutant of Selected: the window includes its lower end (date >= ...).
SelectedInclusive(r, wish, t) ==
  LET min_episode == IF wish.min_episode = None THEN << >>
                     ELSE wish.min_episode
  IN  /\ EqNoCase(r.title, wish.title)
      /\ r.date >= t - WindowDays
      /\ GeNoCase(r.episode, min_episode)

\* A mutant of Selected: the query has no date condition.
SelectedNoWindow(r, wish, t) ==
  LET min_episode == IF wish.min_episode = None THEN << >>
                     ELSE wish.min_episode
  IN  /\ EqNoCase(r.title, wish.title)
      /\ GeNoCase(r.episode, min_episode)

\* The WHERE clause of the query of find_releases (line 115) for one wish
\* at time t; a NULL min_episode was replaced by "" (lines 113-114).
Selected(r, wish, t) ==
  LET min_episode == IF wish.min_episode = None THEN << >>
                     ELSE wish.min_episode
  IN  /\ EqNoCase(r.title, wish.title)
      /\ r.date > t - WindowDays
      /\ GeNoCase(r.episode, min_episode)

\* ORDER BY title, episode, quality (binary collation): r1 not after r2.
OrderLE(r1, r2) ==
  \/ StrLess(r1.title, r2.title)
  \/ /\ r1.title = r2.title
     /\ \/ StrLess(r1.episode, r2.episode)
        \/ /\ r1.episode = r2.episode
           /\ ~ StrLess(r2.quality, r1.quality)

\* A mutant of QueryResults: the query has no ORDER BY, the selected rows
\* come in any order.
QueryResultsUnordered(rel, wish, t) ==
  LET sel == { r \in Range(rel) : Selected(r, wish, t) }
      n == Cardinality(sel)
  IN  { s \in [1..n -> sel] : \A i, j \in 1..n : i < j => s[i] # s[j] }

\* The results cur.fetchall() can return for the query: the selected rows
\* in every order that ORDER BY allows (rows with equal keys in any order).
QueryResults(rel, wish, t) ==
  LET sel == { r \in Range(rel) : Selected(r, wish, t) }
      n == Cardinality(sel)
  IN  { s \in [1..n -> sel] :
          /\ \A i, j \in 1..n : i < j => s[i] # s[j] /\ OrderLE(s[i], s[j]) }

(***************************************************************************)
(* The inputs of the model: feed items and wishlists                       *)
(***************************************************************************)

MaxFeed == 2      \* items in one fetched feed
MaxWish == 2      \* entries in the wishlist
MaxRuns == 2      \* runs of the program
MaxNow == 1       \* days the clock advances

Sp == << " " >>
TV == << "T", "V" >>
Bb == << "B", "b" >>
S02E01 == << "S", "0", "2", "E", "0", "1" >>
S01E05 == << "S", "0", "1", "E", "0", "5" >>
S1E10 == << "S", "1", "E", "1", "0" >>
DateToken == << "2", "0", "2", "4", ".", "0", "1", ".", "0", "2" >>
P720 == << "7", "2", "0", "p" >>
P1080 == << "1", "0", "8", "0", "p" >>
P2160 == << "2", "1", "6", "0", "p" >>
Unknown == << "U", "n", "k", "n", "o", "w", "n" >>
HDCAM == << "H", "D", "C", "A", "M" >>

Item(t, l, d) == [ title |-> t, category |-> TV, link |-> l, date |-> d ]

\* The items a fetched feed is made of (the first loop of parse_feed has
\* turned pubDate into a day number; the clock starts at day 0): two
\* releases of one episode that differ in the case of the title, one of
\* them dated in the future and the other 3 days old after one tick, an
\* episode above and one below the floor S02E01 in text order, and an old
\* item with a date token whose link differs from another link only in case.
FeedItems ==
  { Item(Bb \o Sp \o S02E01 \o Sp \o P720, << "u", "1" >>, -2),
    Item(<< "B", "B" >> \o Sp \o S02E01 \o Sp \o P1080 \o Sp \o HDCAM,
         << "u", "2" >>, 2),
    Item(Bb \o Sp \o S1E10 \o Sp \o P720, << "u", "3" >>, -1),
    Item(Bb \o Sp \o S01E05 \o Sp \o P720, << "u", "4" >>, -1),
    Item(Bb \o Sp \o DateToken \o Sp \o P720, << "U", "1" >>, -4) }

Wish(t, m, i, e) ==
  [ title |-> t, min_episode |-> m, includeprops |-> i, excludeprops |-> e ]

\* The rows the wishlist table is made of.
WishEntries ==
  { Wish(<< "b", "b" >>, None, None, None),
    Wish(Bb, << "s", "0", "2", "e", "0", "1" >>, << "7", "2", "0", "P" >>,
         << "h", "d", "c", "a", "m" >>),
    Wish(Bb, None, << "(" >>, None),
    Wish(Bb, None, << >>, None) }

\* All sequences over S of length at most n.
SeqUpTo(S, n) == UNION { [1..m -> S] : m \in 0..n }

\* The feeds get_feed can return.
Feeds == SeqUpTo(FeedItems, MaxFeed)

\* What parse_feed can return for them (line 208), under either interpreter.
ParsedFeeds ==
  { parse_feed(feed, python) : feed \in Feeds, python \in Interpreters }

(***************************************************************************)
(* The program as a state machine: runs of __main__, one after the other   *)
(***************************************************************************)

VARIABLES
  releases,    \* table releases; every insert is committed at once
  downloads,   \* table downloads as the connection sees it
  committed,   \* number of Download rows that are committed
  wishlist,    \* table wishlist, not written by the program
  now,         \* the clock, in days
  pc,          \* "idle" between runs, "find" inside find_releases
  wi,          \* index of the wish being processed (0 before the first)
  rows,        \* rows of the current wish's query not yet processed
  runs,        \* number of runs started
  status,      \* how the last run ended
  skipped,     \* links this run's ingestion found persisted in another case
  attempted,   \* ids of the releases download_episode was called on, this run
  failed,      \* id of the release whose download raised in this run, or 0
  fetched,     \* [id, day] of every successful download_episode, in order
  failures,    \* ids of the releases whose download raised, all runs
  prev,        \* status and table sizes at the start of this run
  arg,         \* input of a function that is applied on its own
  res,         \* its result
  proc,        \* runs that overlap: each run's position and local values
  holder,      \* the overlapping run that holds SQLite's write lock, or 0
  checked      \* per Download row: its writer and what the writer's check saw

store == << releases, downloads, committed, wishlist >>
history == << skipped, attempted, failed, fetched, failures, prev >>
pure == << arg, res >>
conc == << proc, holder, checked >>

vars == << releases, downloads, committed, wishlist, now, pc, wi, rows, runs,
           status, skipped, attempted, failed, fetched, failures, prev,
           arg, res, proc, holder, checked >>

\* No input chosen, no result computed.
NoValue == [ done |-> FALSE ]

\* The program before its first run, on an empty store.
InitProgram ==
  /\ releases = << >>
  /\ downloads = << >>
  /\ committed = 0
  /\ now = 0
  /\ pc = "idle"
  /\ wi = 0
  /\ rows = << >>
  /\ runs = 0
  /\ status = "none"
  /\ skipped = { }
  /\ attempted = { }
  /\ failed = 0
  /\ fetched = << >>
  /\ failures = { }
  /\ prev = [ status |-> "none", releases |-> 0, downloads |-> 0 ]
  /\ proc = << >>
  /\ holder = 0
  /\ checked = << >>

Init ==
  /\ InitProgram
  /\ wishlist \in SeqUpTo(WishEntries, MaxWish)
  /\ arg = NoValue
  /\ res = NoValue

\* Time passes between two runs.
Tick ==
  /\ pc = "idle"
  /\ now < MaxNow
  /\ now' = now + 1
  /\ UNCHANGED << store, pc, wi, rows, runs, status, history, pure, conc >>

\* A run starts: get_feed, parse_feed and the ingestion loop of __main__
\* (lines 207-219); find_releases is entered.
StartRun ==
  /\ pc = "idle"
  /\ runs < MaxRuns
  /\ \E parsed \in ParsedFeeds :
        /\ ~ parsed.raised
        /\ releases' = IngestShows(releases, parsed.shows)
        /\ skipped' = SkippedLinks(releases, parsed.shows)
  /\ pc' = "find"
  /\ wi' = 0
  /\ rows' = << >>
  /\ runs' = runs + 1
  /\ attempted' = { }
  /\ failed' = 0
  /\ prev' = [ status |-> status, releases |-> Len(releases),
               downloads |-> Len(downloads) ]
  /\ UNCHANGED << downloads, committed, wishlist, now, status, fetched,
                  failures, pure, conc >>

\* A run dies before it opens the store: parse_feed raises (line 172 under
\* Python 3).
ParseRaises ==
  /\ pc = "idle"
  /\ runs < MaxRuns
  /\ \E parsed \in ParsedFeeds : parsed.raised
  /\ runs' = runs + 1
  /\ status' = "crashed"
  /\ skipped' = { }
  /\ attempted' = { }
  /\ failed' = 0
  /\ prev' = [ status |-> status, releases |-> Len(releases),
               downloads |-> Len(downloads) ]
  /\ UNCHANGED << store, now, pc, wi, rows, fetched, failures, pure, conc >>

\* find_releases, line 107 and lines 115-116: the next wish's query.
NextWish ==
  /\ pc = "find"
  /\ rows = << >>
  /\ wi < Len(wishlist)
  /\ wi' = wi + 1
  /\ rows' \in QueryResults(releases, wishlist[wi + 1], now)
  /\ UNCHANGED << store, now, pc, runs, status, history, pure, conc >>

\* An exception leaves find_releases and the with block of __main__: the
\* connection rolls back what the run has not committed.
Rollback(dl) == SubSeq(dl, 1, committed)

\* Line 119 raises re.error: a pattern of the wish does not compile.
RegexRaises ==
  /\ pc = "find"
  /\ rows # << >>
  /\ check_if_continue_props(Head(rows).tags, wishlist[wi].includeprops,
                             wishlist[wi].excludeprops) = "raise"
  /\ downloads' = Rollback(downloads)
  /\ pc' = "idle"
  /\ rows' = << >>
  /\ status' = "aborted"
  /\ UNCHANGED << releases, committed, wishlist, now, wi, runs, history, pure, conc >>

\* A mutant of Eligible: a release whose download raised once is given up.
EligibleNoRetry(row) ==
  /\ check_if_continue_props(row.tags, wishlist[wi].includeprops,
                             wishlist[wi].excludeprops) = "True"
  /\ check_to_download(downloads, row.title, row.episode)
  /\ row.id \notin failures

\* A mutant of Eligible: the property filter of line 119 is not applied.
EligibleNoFilter(row) ==
  check_to_download(downloads, row.title, row.episode)

\* The row passes lines 119-120, so download_episode is called on its link.
Eligible(row) ==
  /\ check_if_continue_props(row.tags, wishlist[wi].includeprops,
                             wishlist[wi].excludeprops) = "True"
  /\ check_to_download(downloads, row.title, row.episode)

\* Lines 119-120: the row fails the filter or its episode is downloaded.
SkipRow ==
  /\ pc = "find"
  /\ rows # << >>
  /\ check_if_continue_props(Head(rows).tags, wishlist[wi].includeprops,
                             wishlist[wi].excludeprops) # "raise"
  /\ ~ Eligible(Head(rows))
  /\ rows' = Tail(rows)
  /\ UNCHANGED << store, now, pc, wi, runs, status, history, pure, conc >>

\* Lines 121-125: download_episode returns True, the Download row is added.
DownloadOk ==
  /\ pc = "find"
  /\ rows # << >>
  /\ Eligible(Head(rows))
  /\ attempted' = attempted \cup { Head(rows).id }
  /\ fetched' = Append(fetched, [ id |-> Head(rows).id, day |-> now ])
  /\ downloads' = add_downloads(downloads, Head(rows).title, Head(rows).episode,
                                Head(rows).id)
  /\ rows' = Tail(rows)
  /\ UNCHANGED << releases, committed, wishlist, now, pc, wi, runs, status,
                  skipped, failed, failures, prev, pure, conc >>

\* Line 121: download_episode raises (the request fails, the response has
\* no content-disposition header or no file name, the file cannot be
\* written); nothing catches it.
DownloadRaises ==
  /\ pc = "find"
  /\ rows # << >>
  /\ Eligible(Head(rows))
  /\ attempted' = attempted \cup { Head(rows).id }
  /\ failed' = Head(rows).id
  /\ failures' = failures \cup { Head(rows).id }
  /\ downloads' = Rollback(downloads)
  /\ pc' = "idle"
  /\ rows' = << >>
  /\ status' = "aborted"
  /\ UNCHANGED << releases, committed, wishlist, now, wi, runs, skipped,
                  fetched, prev, pure, conc >>

\* find_releases returns and the with block commits.
Finish ==
  /\ pc = "find"
  /\ rows = << >>
  /\ wi = Len(wishlist)
  /\ committed' = Len(downloads)
  /\ pc' = "idle"
  /\ status' = "finished"
  /\ UNCHANGED << releases, downloads, wishlist, now, wi, rows, runs, history,
                  pure, conc >>

Next ==
  \/ Tick
  \/ StartRun
  \/ ParseRaises
  \/ NextWish
  \/ RegexRaises
  \/ SkipRow
  \/ DownloadOk
  \/ DownloadRaises
  \/ Finish

Spec == Init /\ [][Next]_vars

(***************************************************************************)
(* Runs of __main__ that overlap on one store.  Each run has its own       *)
(* connection: it sees the committed rows and its own uncommitted ones.    *)
(* SQLite lets one connection write at a time; a connection that waits for *)
(* the write lock either gets it when the other commits or gives up with   *)
(* OperationalError (database is locked).                                  *)
(***************************************************************************)

MaxProcs == 2         \* runs that overlap
MaxOverlapFeed == 1   \* shows in the feed of a run that overlaps

\* Everything only the runs of Spec write.
single == << wishlist, now, pc, wi, rows, runs, status, skipped, attempted,
             failed, failures, prev, pure >>

\* The downloads table as the connection of run p sees it.
ConcView(p) ==
  IF holder = p THEN downloads ELSE SubSeq(downloads, 1, committed)

\* Run p moves on: its local values become l.
ConcStep(p, l) == proc' = [ proc EXCEPT ![p] = l ]

\* An exception ends run p: its connection rolls back what it has written
\* and not committed, and the write lock is free again.
ConcAbort(p) ==
  /\ ConcStep(p, [ proc[p] EXCEPT !.pc = "done" ])
  /\ IF holder = p
       THEN /\ downloads' = Rollback(downloads)
            /\ checked' = SubSeq(checked, 1, committed)
            /\ holder' = 0
       ELSE UNCHANGED << downloads, checked, holder >>

\* A run starts while others are under way: get_feed and parse_feed
\* (lines 207-208).
ConcLaunch ==
  /\ Len(proc) < MaxProcs
  /\ \E parsed \in ParsedFeeds :
        /\ ~ parsed.raised
        /\ Len(parsed.shows) <= MaxOverlapFeed
        /\ proc' = Append(proc, [ pc |-> "ingest", todo |-> parsed.shows,
                                  wi |-> 0, rows |-> << >>, seen |-> 0 ])
  /\ UNCHANGED << store, fetched, holder, checked, single >>

\* Line 215: check_if_show_exists for the next show of the feed.
ConcExists(p) ==
  /\ p \in DOMAIN proc
  /\ proc[p].pc = "ingest"
  /\ proc[p].todo # << >>
  /\ IF check_if_show_exists(releases, Head(proc[p].todo).link)
       THEN ConcStep(p, [ proc[p] EXCEPT !.todo = Tail(@) ])
       ELSE ConcStep(p, [ proc[p] EXCEPT !.pc = "add" ])
  /\ UNCHANGED << store, fetched, holder, checked, single >>

\* Lines 216-218: add_release and commit, once no other run holds the
\* write lock.
ConcAddRelease(p) ==
  /\ p \in DOMAIN proc
  /\ proc[p].pc = "add"
  /\ holder = 0
  /\ releases' = add_release(releases, Head(proc[p].todo))
  /\ ConcStep(p, [ proc[p] EXCEPT !.pc = "ingest", !.todo = Tail(@) ])
  /\ UNCHANGED << downloads, committed, fetched, holder, checked, single >>

\* An INSERT of run p gives up waiting for the write lock another run
\* holds: OperationalError ends the run.
ConcLocked(p) ==
  /\ p \in DOMAIN proc
  /\ proc[p].pc \in { "add", "insert" }
  /\ holder \notin { 0, p }
  /\ ConcAbort(p)
  /\ UNCHANGED << releases, committed, fetched, single >>

\* Run p is between two wishes of find_releases (or enters it).
ConcBetweenWishes(p) ==
  \/ proc[p].pc = "ingest" /\ proc[p].todo = << >>
  \/ proc[p].pc = "find" /\ proc[p].rows = << >>

\* Line 107 and lines 115-116: the next wish's query.
ConcNextWish(p) ==
  /\ p \in DOMAIN proc
  /\ ConcBetweenWishes(p)
  /\ proc[p].wi < Len(wishlist)
  /\ \E r \in QueryResults(releases, wishlist[proc[p].wi + 1], now) :
        ConcStep(p, [ proc[p] EXCEPT !.pc = "find", !.wi = @ + 1,
                                     !.rows = r ])
  /\ UNCHANGED << store, fetched, holder, checked, single >>

\* find_releases returns and the with block commits.
ConcFinish(p) ==
  /\ p \in DOMAIN proc
  /\ ConcBetweenWishes(p)
  /\ proc[p].wi = Len(wishlist)
  /\ ConcStep(p, [ proc[p] EXCEPT !.pc = "done" ])
  /\ IF holder = p
       THEN committed' = Len(downloads) /\ holder' = 0
       ELSE UNCHANGED << committed, holder >>
  /\ UNCHANGED << releases, downloads, fetched, checked, single >>

\* Lines 119-120 for the next row: the filter, then check_to_download on
\* what the run's connection sees.
ConcCheck(p) ==
  /\ p \in DOMAIN proc
  /\ proc[p].pc = "find"
  /\ proc[p].rows # << >>
  /\ LET row == Head(proc[p].rows)
         w == wishlist[proc[p].wi]
         props == check_if_continue_props(row.tags, w.includeprops,
                                          w.excludeprops)
     IN  IF props = "raise"
           THEN ConcAbort(p)
         ELSE /\ IF /\ props = "True"
                    /\ check_to_download(ConcView(p), row.title, row.episode)
                   THEN ConcStep(p, [ proc[p] EXCEPT
                                        !.pc = "download",
                                        !.seen = Len(ConcView(p)) ])
                   ELSE ConcStep(p, [ proc[p] EXCEPT !.rows = Tail(@) ])
              /\ UNCHANGED << downloads, checked, holder >>
  /\ UNCHANGED << releases, committed, fetched, single >>

\* Line 121: download_episode returns True.
ConcDownloadOk(p) ==
  /\ p \in DOMAIN proc
  /\ proc[p].pc = "download"
  /\ fetched' = Append(fetched, [ id |-> Head(proc[p].rows).id, day |-> now ])
  /\ ConcStep(p, [ proc[p] EXCEPT !.pc = "insert" ])
  /\ UNCHANGED << store, holder, checked, single >>

\* Line 121: download_episode raises.
ConcDownloadRaises(p) ==
  /\ p \in DOMAIN proc
  /\ proc[p].pc = "download"
  /\ ConcAbort(p)
  /\ UNCHANGED << releases, committed, fetched, single >>

\* Line 123: add_downloads, once no other run holds the write lock; the
\* run holds it from here until it commits or rolls back.
ConcInsert(p) ==
  /\ p \in DOMAIN proc
  /\ proc[p].pc = "insert"
  /\ holder \in { 0, p }
  /\ LET row == Head(proc[p].rows)
     IN  downloads' = add_downloads(downloads, row.title, row.episode, row.id)
  /\ checked' = Append(checked, [ by |-> p, seen |-> proc[p].seen ])
  /\ holder' = p
  /\ ConcStep(p, [ proc[p] EXCEPT !.pc = "find", !.rows = Tail(@) ])
  /\ UNCHANGED << releases, committed, fetched, single >>

InitConc ==
  /\ InitProgram
  /\ wishlist \in { << w >> : w \in WishEntries }
  /\ arg = NoValue
  /\ res = NoValue

NextConc ==
  \/ ConcLaunch
  \/ \E p \in 1..MaxProcs : ConcExists(p)
  \/ \E p \in 1..MaxProcs : ConcAddRelease(p)
  \/ \E p \in 1..MaxProcs : ConcLocked(p)
  \/ \E p \in 1..MaxProcs : ConcNextWish(p)
  \/ \E p \in 1..MaxProcs : ConcFinish(p)
  \/ \E p \in 1..MaxProcs : ConcCheck(p)
  \/ \E p \in 1..MaxProcs : ConcDownloadOk(p)
  \/ \E p \in 1..MaxProcs : ConcDownloadRaises(p)
  \/ \E p \in 1..MaxProcs : ConcInsert(p)

SpecConc == InitConc /\ [][NextConc]_vars

(***************************************************************************)
(* Claims about the runs of the program                                    *)
(***************************************************************************)

\* Two rows name the same episode: title and episode equal, ignoring case.
SameEpisode(x, y) ==
  Lower(x.title) = Lower(y.title) /\ Lower(x.episode) = Lower(y.episode)

\* Release r matches wish w at time t: the query selects it and the
\* property filter passes it.
Matches(r, w, t) ==
  /\ Selected(r, w, t)
  /\ check_if_continue_props(r.tags, w.includeprops, w.excludeprops) = "True"

FetchedIds == { fetched[i].id : i \in 1..Len(fetched) }

\* A Download row names the episode of release r.
Recorded(r) == \E n \in 1..Len(downloads) : SameEpisode(downloads[n], r)

\* C1: the downloads table never holds two rows for one (title, episode),
\* compared ignoring case; and a run that starts after a run that finished,
\* and that inserts no release, calls download_episode on nothing and adds
\* no Download row.
C1_OneDownloadPerEpisode ==
  /\ \A i, j \in 1..Len(downloads) :
        i # j => ~ SameEpisode(downloads[i], downloads[j])
  /\ (prev.status = "finished" /\ Len(releases) = prev.releases)
        => (attempted = { } /\ Len(downloads) = prev.downloads)

\* Two releases of one episode are persisted and match a wish, one Download
\* row was written by a finished run, and a second run has finished on the
\* same releases.
C1_Witness ==
  /\ pc = "idle" /\ status = "finished" /\ runs = 2
  /\ prev.status = "finished" /\ prev.downloads = 1
  /\ Len(releases) = prev.releases
  /\ \E i, j \in 1..Len(releases), k \in 1..Len(wishlist) :
        /\ i # j
        /\ SameEpisode(releases[i], releases[j])
        /\ releases[i].title # releases[j].title
        /\ Matches(releases[i], wishlist[k], now)
        /\ Matches(releases[j], wishlist[k], now)

\* C2: no (title, episode) is fetched successfully twice, and when a run
\* has ended every successful fetch is recorded by a Download row.
C2_FetchedOnceAndRecorded ==
  /\ \A i, j \in 1..Len(fetched) :
        i # j => ~ SameEpisode(releases[fetched[i].id], releases[fetched[j].id])
  /\ pc = "idle" =>
        \A i \in 1..Len(fetched) :
           \E n \in 1..Len(downloads) : downloads[n].release_id = fetched[i].id

C4_FailureDoesNotStopRun ==
  (pc = "idle" /\ failed # 0) =>
     \A n \in 1..Len(releases) : \A k \in 1..Len(wishlist) :
        (n # failed /\ Matches(releases[n], wishlist[k], now)) =>
           (n \in attempted \/ Recorded(releases[n]))

\* C5: when a run in which no download raised has ended, also one whose
\* wishlist holds a pattern that does not compile, every release that
\* matches a wish was attempted in the run or has its episode recorded.
C5_BadPatternSkipsEntryOnly ==
  (pc = "idle" /\ status \in { "finished", "aborted" } /\ failed = 0) =>
     \A n \in 1..Len(releases) : \A k \in 1..Len(wishlist) :
        Matches(releases[n], wishlist[k], now) =>
           (n \in attempted \/ Recorded(releases[n]))

\* C6: no two releases have the same link, ignoring case;
\* check_if_show_exists is true of a link exactly when a persisted link
\* equals it ignoring case; and a link the ingestion skipped is persisted
\* in another spelling.
C6_OneReleasePerLink ==
  /\ \A i, j \in 1..Len(releases) :
        i # j => Lower(releases[i].link) # Lower(releases[j].link)
  /\ \A it \in FeedItems :
        check_if_show_exists(releases, it.link)
          <=> \E n \in 1..Len(releases) :
                 Lower(releases[n].link) = Lower(it.link)
  /\ \A l \in skipped :
        \E n \in 1..Len(releases) :
           Lower(releases[n].link) = Lower(l) /\ releases[n].link # l

\* A feed item was not inserted because its link was persisted in another
\* case.
C6_Witness ==
  /\ skipped # { }
  /\ Len(releases) >= 1

\* Text order, character by character on the codes: a >= b.
RECURSIVE LexGE(_, _)
LexGE(a, b) ==
  IF b = << >> THEN TRUE
  ELSE IF a = << >> THEN FALSE
  ELSE IF Head(a) = Head(b) THEN LexGE(Tail(a), Tail(b))
  ELSE Ord[Head(a)] > Ord[Head(b)]

\* C7: the query of a wish returns, of the releases with its title inside
\* the window, exactly those whose episode is >= the floor in text order
\* ignoring case (a NULL floor is the empty text); so S1E10 is above the
\* floor S02E01 and S01E05 is below it.
C7_EpisodeFloor ==
  [][ wi' = wi + 1 =>
        LET w == wishlist[wi']
            floor == IF w.min_episode = None THEN << >> ELSE w.min_episode
        IN  \A n \in 1..Len(releases) :
               ( /\ Lower(releases[n].title) = Lower(w.title)
                 /\ releases[n].date > now - WindowDays )
               => ( (\E m \in 1..Len(rows') : rows'[m] = releases[n])
                     <=> LexGE(Lower(releases[n].episode), Lower(floor)) )
    ]_vars

\* With the floor s02e01, a finished run has fetched S02E01 and S1E10 and
\* has not fetched S01E05, which is inside the window.
C7_Witness ==
  /\ pc = "idle" /\ status = "finished"
  /\ Len(wishlist) = 1
  /\ wishlist[1].min_episode = << "s", "0", "2", "e", "0", "1" >>
  /\ \E i, j, k \in 1..Len(releases) :
        /\ releases[i].episode = S02E01 /\ i \in FetchedIds
        /\ releases[j].episode = S1E10 /\ j \in FetchedIds
        /\ releases[k].episode = S01E05 /\ k \notin FetchedIds
        /\ releases[k].date > now - WindowDays

\* C8: every release was less than 3 days old on the day it was fetched,
\* no fetch lies in the future, and inside find_releases every release
\* download_episode was called on is less than 3 days old; so a release
\* that has left the window unfetched stays unfetched.
C8_OnlyRecentFetched ==
  /\ \A i \in 1..Len(fetched) :
        /\ releases[fetched[i].id].date > fetched[i].day - WindowDays
        /\ fetched[i].day <= now
  /\ pc = "find" =>
        \A id \in attempted : releases[id].date > now - WindowDays

\* A finished run has fetched a release dated one day before it and has
\* not fetched a release dated four days before it, whose title a wish
\* without floor and filter names.
C8_Witness ==
  /\ pc = "idle" /\ status = "finished"
  /\ \E i \in 1..Len(fetched) :
        /\ fetched[i].day = now
        /\ releases[fetched[i].id].date = now - 1
  /\ \E n \in 1..Len(releases), k \in 1..Len(wishlist) :
        /\ releases[n].date = now - 4
        /\ n \notin FetchedIds
        /\ Matches(releases[n], wishlist[k], releases[n].date)

(***************************************************************************)
(* check_if_continue_props and parse_feed applied on their own             *)
(***************************************************************************)

MaxMarks == 2     \* markers in the tags of a parsed title

WEB == << "W", "E", "B" >>

PropTags ==
  { << >>, P1080 \o Sp \o WEB, P1080 \o Sp \o HDCAM,
    << "7", "2", "0", "P" >> \o Sp \o << "w", "e", "b" >> }

\* None, the empty pattern, a pattern that does not compile, and patterns
\* that do.
PropPatterns ==
  { None, << >>, << "(" >>, P1080, HDCAM, << "h", "d", "c", "a", "m" >>,
    << "w", ".", "b" >> }

PropInputs ==
  [ tags : PropTags, includeprops : PropPatterns, excludeprops : PropPatterns ]

InitProps ==
  /\ InitProgram
  /\ wishlist = << >>
  /\ arg \in PropInputs
  /\ res = NoValue

ApplyProps ==
  /\ ~ res.done
  /\ res' = [ done |-> TRUE,
              value |-> check_if_continue_props(arg.tags, arg.includeprops,
                                                arg.excludeprops) ]
  /\ UNCHANGED << store, now, pc, wi, rows, runs, status, history, arg, conc >>

NextProps == ApplyProps

SpecProps == InitProps /\ [][NextProps]_vars

\* The texts made of at most n of the markers, separated by one space.
RECURSIVE MarkTexts(_, _)
MarkTexts(marks, n) ==
  IF n = 0 THEN { << >> }
  ELSE LET shorter == MarkTexts(marks, n - 1)
       IN  shorter \cup { IF t = << >> THEN m ELSE t \o Sp \o m :
                            t \in shorter, m \in marks }

ParseMarks == { P1080, P720, P2160, HDCAM }

\* Titles with an episode token, with a date token and with neither,
\* followed by tags.
ParseTitles ==
  { Bb \o tok \o (IF t = << >> THEN << >> ELSE Sp \o t) :
      tok \in { Sp \o S02E01, Sp \o DateToken, << >> },
      t \in MarkTexts(ParseMarks, MaxMarks) }

\* Titles at the edges of the two patterns: two episode tokens with a marker
\* after the second, a token glued to the text around it, a title that is
\* only a token, runs of spaces, an episode token after a date token, date
\* tokens separated by spaces, and texts that only look like tokens.
EdgeTitles ==
  { Bb \o Sp \o S02E01 \o Sp \o P720 \o Sp \o S01E05 \o Sp \o P1080,
    Bb \o Sp \o S02E01 \o S1E10 \o Sp \o P1080,
    Bb \o S1E10 \o << "x" >>,
    S02E01,
    Sp \o Bb \o Sp \o Sp \o S02E01 \o Sp \o Sp \o P1080 \o Sp,
    Bb \o Sp \o DateToken \o Sp \o S1E10 \o Sp \o P720,
    Bb \o Sp \o << "2", "0", "2", "4", " ", " ", "0", "1", ".", "0", "2" >>
       \o Sp \o P1080,
    Bb \o Sp \o << "S", "E", "1" >> \o Sp \o P720,
    Bb \o Sp \o << "s", "0", "2", "e", "0", "1" >> \o Sp \o P720,
    Bb \o Sp \o << "2", "0", "2", "4", "-", "0", "1", "-", "0", "2" >>,
    Sp \o Bb \o Sp }

InitParse ==
  /\ InitProgram
  /\ wishlist = << >>
  /\ arg \in { Item(t, << "u", "1" >>, 0) : t \in ParseTitles \cup EdgeTitles }
  /\ res = NoValue

ApplyParse ==
  /\ ~ res.done
  /\ \E python \in Interpreters :
        res' = [ done |-> TRUE, value |-> parse_feed(<< arg >>, python) ]
  /\ UNCHANGED << store, now, pc, wi, rows, runs, status, history, arg, conc >>

NextParse == ApplyParse

SpecParse == InitParse /\ [][NextParse]_vars

(***************************************************************************)
(* Claims about check_if_continue_props and parse_feed                     *)
(***************************************************************************)

\* The pattern p, whose "." stands for any character, is found somewhere in
\* tags, ignoring case.
Found(p, tags) ==
  \E i \in 1..(Len(tags) - Len(p) + 1) :
     \A k \in 1..Len(p) : p[k] = "." \/ Lower(p)[k] = Lower(tags)[i + k - 1]

\* The truth table of the property filter: absent is None.
TruthTable(tags, inc, exc) ==
  \/ inc = None /\ exc = None
  \/ inc # None /\ exc = None /\ Found(inc, tags)
  \/ inc = None /\ exc # None /\ ~ Found(exc, tags)
  \/ inc # None /\ exc # None /\ Found(inc, tags) /\ ~ Found(exc, tags)

\* C9 on the patterns that are None or not empty (and compile):
\* check_if_continue_props returns True exactly in the four rows of the
\* truth table.  If a pattern is the empty text and the other is None or
\* compiles, it returns False, although the empty pattern is found in
\* every tags.
C9_TruthTableNonEmpty ==
  res.done =>
    LET inc == arg.includeprops
        exc == arg.excludeprops
    IN  /\ ( /\ inc = None \/ (inc # << >> /\ Compiles(inc))
             /\ exc = None \/ (exc # << >> /\ Compiles(exc)) )
           => (res.value = "True" <=> TruthTable(arg.tags, inc, exc))
        /\ ( /\ inc = << >> \/ exc = << >>
             /\ inc = None \/ Compiles(inc)
             /\ exc = None \/ Compiles(exc) )
           => res.value = "False"

\* The filter passed "1080p WEB" for include 1080p and exclude hdcam.
C9_Witness ==
  /\ res.done
  /\ arg.tags = P1080 \o Sp \o WEB
  /\ arg.includeprops = P1080
  /\ arg.excludeprops = << "h", "d", "c", "a", "m" >>
  /\ res.value = "True"

\* C9: for patterns that are None or compile, the empty pattern among
\* them, check_if_continue_props returns True exactly in the four rows of
\* the truth table.
C9_TruthTable ==
  res.done =>
    LET inc == arg.includeprops
        exc == arg.excludeprops
    IN  ( /\ inc = None \/ Compiles(inc)
          /\ exc = None \/ Compiles(exc) )
        => (res.value = "True" <=> TruthTable(arg.tags, inc, exc))

\* The quality the tags stand for: the first of 1080p, 720p, 2160p that
\* occurs in them, else Unknown.
FirstMarker(tags) ==
  IF Contains(tags, P1080) THEN P1080
  ELSE IF Contains(tags, P720) THEN P720
  ELSE IF Contains(tags, P2160) THEN P2160
  ELSE Unknown

\* C10: the quality of every episodic record parse_feed returns is the
\* first of 1080p, 720p, 2160p that occurs in its tags, else Unknown.
C10_QualityFirstMarker ==
  res.done =>
    \A n \in 1..Len(res.value.shows) :
       res.value.shows[n].quality = FirstMarker(res.value.shows[n].tags)

\* The quality markers that occur in tags.
MarkersIn(tags) == { m \in { P1080, P720, P2160 } : Contains(tags, m) }

\* C11: an episodic record whose tags hold both 1080p and 720p has quality
\* 1080p; its quality is one of 1080p, 720p, 2160p, Unknown; and every tags
\* text in which the same markers occur, in whatever positions, is given
\* the same quality.
C11_QualityPriority ==
  res.done =>
    \A n \in 1..Len(res.value.shows) :
       LET r == res.value.shows[n]
       IN  /\ (Contains(r.tags, P1080) /\ Contains(r.tags, P720))
                => r.quality = P1080
           /\ r.quality \in { P1080, P720, P2160, Unknown }
           /\ \A t \in MarkTexts(ParseMarks, MaxMarks) :
                 MarkersIn(t) = MarkersIn(r.tags) => Quality(t) = r.quality

\* parse_feed has given the tags "720p 1080p" the quality 1080p.
C11_Witness ==
  /\ res.done
  /\ Len(res.value.shows) = 1
  /\ res.value.shows[1].tags = P720 \o Sp \o P1080
  /\ res.value.shows[1].quality = P1080

\* x has the form S<digits>E<digits>.
IsEpisodeToken(x) ==
  /\ Len(x) >= 4
  /\ x[1] = "S"
  /\ \E k \in 3..(Len(x) - 1) :
        /\ x[k] = "E"
        /\ \A m \in 2..(k - 1) : x[m] \in Digits
        /\ \A m \in (k + 1)..Len(x) : x[m] \in Digits

\* The positions <<i, j>> at which an episode token lies in t.
EpisodeSpans(t) ==
  { ij \in (1..Len(t)) \X (1..Len(t)) :
      ij[1] <= ij[2] /\ IsEpisodeToken(SubSeq(t, ij[1], ij[2])) }

\* The first episode token of t: the leftmost start, and from there the
\* longest token.
FirstEpisodeSpan(t) ==
  CHOOSE ij \in EpisodeSpans(t) :
     \A kl \in EpisodeSpans(t) :
        ij[1] < kl[1] \/ (ij[1] = kl[1] /\ ij[2] >= kl[2])

\* y is x without the whitespace at its two ends.
IsTrimOf(y, x) ==
  /\ y = << >> \/ (y[1] # " " /\ y[Len(y)] # " ")
  /\ \E a, b \in 0..Len(x) :
        /\ a + Len(y) + b = Len(x)
        /\ SubSeq(x, a + 1, a + Len(y)) = y
        /\ \A m \in (1..a) \cup ((a + Len(y) + 1)..Len(x)) : x[m] = " "

\* C12: a feed item whose title holds an episode token is returned in
\* shows and not in movies; its episode is the first token, its title the
\* trimmed text before the token, and category, link and date are the
\* item's.
C12_EpisodicTitle ==
  (res.done /\ EpisodeSpans(arg.title) # { }) =>
     LET ij == FirstEpisodeSpan(arg.title)
     IN  /\ ~ res.value.raised
         /\ res.value.movies = << >>
         /\ Len(res.value.shows) = 1
         /\ res.value.shows[1].episode = SubSeq(arg.title, ij[1], ij[2])
         /\ IsTrimOf(res.value.shows[1].title,
                     SubSeq(arg.title, 1, ij[1] - 1))
         /\ res.value.shows[1].category = arg.category
         /\ res.value.shows[1].link = arg.link
         /\ res.value.shows[1].date = arg.date

\* parse_feed has parsed a title with spaces around the text before its
\* first token, and with a second token.
C12_Witness ==
  /\ res.done
  /\ Len(res.value.shows) = 1
  /\ res.value.shows[1].title = Bb
  /\ res.value.shows[1].episode = S02E01
  /\ \E ij \in EpisodeSpans(arg.title) : ij[1] > 5
  /\ arg.title[1] = " "

\* x is a separator of the date pattern: one period or a run of whitespace.
IsDateSep(x) ==
  \/ x = << "." >>
  \/ Len(x) >= 1 /\ \A m \in 1..Len(x) : x[m] = " "

\* x has the form NNNN<sep>NN<sep>NN.
IsDateToken(x) ==
  \E a, b \in 1..Len(x) :
     /\ 4 + a + 2 + b + 2 = Len(x)
     /\ \A m \in (1..4) \cup ((5 + a)..(6 + a)) \cup ((7 + a + b)..Len(x)) :
           x[m] \in Digits
     /\ IsDateSep(SubSeq(x, 5, 4 + a))
     /\ IsDateSep(SubSeq(x, 7 + a, 6 + a + b))

\* The positions <<i, j>> at which a date token lies in t.
DateSpans(t) ==
  { ij \in (1..Len(t)) \X (1..Len(t)) :
      ij[1] <= ij[2] /\ IsDateToken(SubSeq(t, ij[1], ij[2])) }

\* The item is returned as a movie and as nothing else.
LandsInMovies ==
  /\ ~ res.value.raised
  /\ res.value.shows = << >>
  /\ Len(res.value.movies) = 1
  /\ DOMAIN res.value.movies[1] \ { "kind" }
        = { "title", "category", "link", "date" }
  /\ res.value.movies[1].title = arg.title
  /\ res.value.movies[1].category = arg.category
  /\ res.value.movies[1].link = arg.link
  /\ res.value.movies[1].date = arg.date

\* No movie of the result becomes a release when the result is ingested.
MoviesNotIngested ==
  \A n \in 1..Len(res.value.movies) :
     ~ check_if_show_exists(IngestShows(<< >>, res.value.shows),
                            res.value.movies[n].link)

\* C13: a feed item whose title holds neither an episode token nor a date
\* token is returned only in movies, with exactly title, category, link and
\* date; parse_feed puts every feed item in exactly one of its two lists;
\* and no movie is inserted into releases.
C13_MovieOrShow ==
  res.done =>
     /\ (EpisodeSpans(arg.title) = { } /\ DateSpans(arg.title) = { })
           => LandsInMovies
     /\ ~ res.value.raised
     /\ Len(res.value.shows) + Len(res.value.movies) = 1
     /\ MoviesNotIngested

\* C13 on the calls of parse_feed that return: a title with neither token
\* gives a movie and nothing else, the item is in exactly one list, and no
\* movie is ingested.
C13_MovieOnly ==
  res.done =>
     /\ (EpisodeSpans(arg.title) = { } /\ DateSpans(arg.title) = { })
           => LandsInMovies
     /\ ~ res.value.raised
           => /\ Len(res.value.shows) + Len(res.value.movies) = 1
              /\ MoviesNotIngested

\* parse_feed has returned a movie for a title that only looks like it
\* held a date.
C13_Witness ==
  /\ res.done
  /\ Len(res.value.movies) = 1
  /\ res.value.movies[1].title
        = Bb \o Sp \o << "2", "0", "2", "4", "-", "0", "1", "-", "0", "2" >>

\* The first date token of t: the leftmost start (the end is then fixed).
FirstDateSpan(t) ==
  CHOOSE ij \in DateSpans(t) :
     \A kl \in DateSpans(t) :
        ij[1] < kl[1] \/ (ij[1] = kl[1] /\ ij[2] >= kl[2])

\* The item is returned as one episodic record split at its date token.
LandsAsDatedShow ==
  LET ij == FirstDateSpan(arg.title)
  IN  /\ res.value.movies = << >>
      /\ Len(res.value.shows) = 1
      /\ res.value.shows[1].episode = SubSeq(arg.title, ij[1], ij[2])
      /\ IsTrimOf(res.value.shows[1].title, SubSeq(arg.title, 1, ij[1] - 1))
      /\ IsTrimOf(res.value.shows[1].tags,
                  SubSeq(arg.title, ij[2] + 1, Len(arg.title)))
      /\ res.value.shows[1].quality = Quality(res.value.shows[1].tags)

\* C14: a feed item whose title holds no episode token but a date token is
\* returned in shows as an episodic record: title the trimmed text before
\* the token, episode the token, tags the trimmed text after it, quality
\* derived from the tags.
C14_DateTitle ==
  (res.done /\ EpisodeSpans(arg.title) = { } /\ DateSpans(arg.title) # { })
     => (~ res.value.raised /\ LandsAsDatedShow)

\* C14 on the calls of parse_feed that return (map() gave a list).
C14_DateTitleWhenReturned ==
  ( /\ res.done
    /\ EpisodeSpans(arg.title) = { } /\ DateSpans(arg.title) # { }
    /\ ~ res.value.raised )
     => LandsAsDatedShow

\* C15 for runs that overlap: of two Download rows for one (title, episode),
\* the later one was written by another run than the earlier one, and that
\* run's check_to_download ran when its connection did not yet see the
\* earlier row.  (For runs one after the other no two such rows exist: C1.)
C15_DuplicateOnlyByOverlap ==
  /\ Len(checked) = Len(downloads)
  /\ \A i, j \in 1..Len(downloads) :
        (i < j /\ SameEpisode(downloads[i], downloads[j]))
           => /\ checked[i].by # checked[j].by
              /\ checked[j].seen < i

\* Two runs that overlapped have ended, both have fetched the same episode
\* and two committed Download rows name it.
C15_Witness ==
  /\ Len(proc) = 2
  /\ \A p \in 1..Len(proc) : proc[p].pc = "done"
  /\ committed = 2 /\ Len(downloads) = 2
  /\ SameEpisode(downloads[1], downloads[2])
  /\ Len(fetched) = 2
  /\ SameEpisode(releases[fetched[1].id], releases[fetched[2].id])

\* C16: no step of a run changes the wishlist, changes or removes a
\* Release row, or changes a Download row; the committed Download rows stay
\* and only get more; find_releases leaves releases as they are and the
\* steps before it leave downloads as they are.
C16_RowsOnlyGrow ==
  [][ /\ wishlist' = wishlist
      /\ Len(releases') >= Len(releases)
      /\ \A n \in 1..Len(releases) : releases'[n] = releases[n]
      /\ committed' >= committed
      /\ Len(downloads') >= committed'
      /\ \A n \in 1..Len(downloads) :
            n <= Len(downloads') => downloads'[n] = downloads[n]
      /\ pc = "find" => releases' = releases
      /\ pc = "idle" => (downloads' = downloads /\ committed' = committed)
    ]_vars

\* A run has aborted on a failed download after an earlier run committed a
\* Download row; that row and the releases of both runs are in the store.
C16_Witness ==
  /\ pc = "idle" /\ status = "aborted" /\ failed # 0
  /\ runs = 2 /\ prev.status = "finished"
  /\ committed = 1 /\ Len(downloads) = 1
  /\ Len(releases) > prev.releases /\ prev.releases > 0

\* Release r has the title of wish w and an episode at or above its floor.
TitleAndFloor(r, w) ==
  /\ Lower(r.title) = Lower(w.title)
  /\ LexGE(Lower(r.episode),
           IF w.min_episode = None THEN << >> ELSE Lower(w.min_episode))

\* C17: of the releases with the wish's title and an episode at or above
\* its floor, the query returns exactly those dated at or after the current
\* time minus 3 days, those dated in the future among them.
C17_WindowInclusive ==
  [][ wi' = wi + 1 =>
        \A n \in 1..Len(releases) :
           TitleAndFloor(releases[n], wishlist[wi'])
             => ( (\E m \in 1..Len(rows') : rows'[m] = releases[n])
                   <=> releases[n].date >= now - WindowDays )
    ]_vars

\* C17 as amended: the query returns exactly those dated after the current
\* time minus 3 days: a release dated exactly 3 days ago is left out and a
\* release dated in the future is returned.
C17_WindowExclusive ==
  [][ wi' = wi + 1 =>
        \A n \in 1..Len(releases) :
           TitleAndFloor(releases[n], wishlist[wi'])
             => ( (\E m \in 1..Len(rows') : rows'[m] = releases[n])
                   <=> releases[n].date > now - WindowDays )
    ]_vars

\* A query has returned a release dated in the future and has left out a
\* release dated exactly 3 days ago that has the wish's title and is at or
\* above its floor.
C17_Witness ==
  /\ pc = "find" /\ wi >= 1
  /\ \E m \in 1..Len(rows) : rows[m].date > now
  /\ \E n \in 1..Len(releases) :
        /\ releases[n].date = now - WindowDays
        /\ TitleAndFloor(releases[n], wishlist[wi])
        /\ n \notin attempted
        /\ \A m \in 1..Len(rows) : rows[m] # releases[n]

\* The episode tokens of t that start after position j.
EpisodeSpansAfter(t, j) == { kl \in EpisodeSpans(t) : kl[1] > j }

\* C18: for a title with two or more episode tokens, the episode is the
\* first token and the tags are the trimmed text between the first and the
\* second token; the quality is that of these tags, whatever follows the
\* second token.
C18_FirstThreeSegments ==
  (res.done /\ EpisodeSpans(arg.title) # { }) =>
     LET ij == FirstEpisodeSpan(arg.title)
         later == EpisodeSpansAfter(arg.title, ij[2])
     IN  later # { } =>
           LET k == CHOOSE x \in { kl[1] : kl \in later } :
                       \A kl \in later : x <= kl[1]
               between == SubSeq(arg.title, ij[2] + 1, k - 1)
           IN  /\ Len(res.value.shows) = 1
               /\ res.value.shows[1].episode = SubSeq(arg.title, ij[1], ij[2])
               /\ IsTrimOf(res.value.shows[1].tags, between)
               /\ res.value.shows[1].quality = Quality(between)

\* parse_feed has parsed "Bb S02E01 720p S01E05 1080p": the tags are 720p
\* and so is the quality, although 1080p follows the second token.
C18_Witness ==
  /\ res.done
  /\ arg.title = Bb \o Sp \o S02E01 \o Sp \o P720 \o Sp \o S01E05 \o Sp \o P1080
  /\ Len(res.value.shows) = 1
  /\ res.value.shows[1].episode = S02E01
  /\ res.value.shows[1].tags = P720
  /\ res.value.shows[1].quality = P720

\* The releases download_episode has returned for in the current run.
FetchedThisRun == { r \in Range(releases) : r.id \in attempted \ { failed } }

\* The releases of r's episode that match wish w at time t.
Rivals(r, w, t) ==
  { x \in Range(releases) : Matches(x, w, t) /\ SameEpisode(x, r) }

\* C19 as stated, for runs that evaluate every entry: when find_releases
\* returns, of several releases of one episode that pass an entry's filter
\* exactly one has been fetched in the run, the first in (title, episode,
\* quality) order.
C19_ExactlyOneFetched ==
  [][ (pc = "find" /\ pc' = "idle" /\ status' = "finished") =>
        \A n \in 1..Len(wishlist) : \A r \in Range(releases) :
          LET group == Rivals(r, wishlist[n], now)
          IN  (Matches(r, wishlist[n], now) /\ Cardinality(group) > 1) =>
                /\ Cardinality(group \cap FetchedThisRun) = 1
                /\ \A x \in group \cap FetchedThisRun :
                      \A y \in group : OrderLE(x, y) ]_vars

\* C19, amended: the entries are taken in wishlist order; within an entry
\* download_episode is invoked in ascending (title, episode, quality)
\* order; a release that is fetched is the first in that order of the
\* releases of its episode that pass the entry's filter, and no other
\* release of its episode has been fetched in the run.
C19_FirstInOrderAtMostOne ==
  [][ /\ (wi' # wi) => (wi' = wi + 1 \/ wi' = 0)
      /\ (attempted # attempted' /\ attempted \subseteq attempted') =>
           \E r \in Range(releases) :
              /\ attempted' = attempted \cup { r.id }
              /\ wi' = wi
              /\ Selected(r, wishlist[wi], now)
              /\ \A x \in Range(releases) :
                    (Selected(x, wishlist[wi], now) /\ x \notin Range(rows))
                       => OrderLE(x, r)
              /\ \A x \in Range(rows) : OrderLE(r, x)
              /\ (fetched' # fetched) =>
                    /\ fetched'[Len(fetched')].id = r.id
                    /\ \A x \in Rivals(r, wishlist[wi], now) : OrderLE(r, x)
                    /\ \A y \in FetchedThisRun : ~ SameEpisode(y, r) ]_vars

\* Two releases of one episode pass the current entry's filter and the
\* first of them in (title, episode, quality) order has just been fetched,
\* the other has not been tried.
C19_Witness ==
  /\ pc = "find"
  /\ wi > 0
  /\ failed = 0
  /\ fetched # << >>
  /\ \E r1, r2 \in Range(releases) :
        /\ r1 # r2
        /\ r2 \in Rivals(r1, wishlist[wi], now)
        /\ Matches(r1, wishlist[wi], now)
        /\ OrderLE(r1, r2) /\ ~ OrderLE(r2, r1)
        /\ fetched[Len(fetched)].id = r1.id
        /\ r1.id \in attempted
        /\ r2.id \notin attempted
        /\ r2 \in Range(rows)

\* C20: a Download row is inserted only while an entry of the wishlist is
\* processed; it carries the id, title and episode of an existing release
\* that matches this entry at that time (title ignoring case, date inside
\* the 3-day window, episode at or above the floor, property filter true)
\* and for which download_episode has just returned; with an empty wishlist
\* there is never a Download row.
C20_DownloadHasMatchedRelease ==
  [][ /\ (Len(downloads') > Len(downloads)) =>
           LET d == downloads'[Len(downloads')]
           IN  /\ downloads' = Append(downloads, d)
               /\ wi \in 1..Len(wishlist)
               /\ \E n \in 1..Len(releases) :
                     LET R == releases[n]
                         W == wishlist[wi]
                     IN  /\ R.id = d.release_id
                         /\ d.title = R.title
                         /\ d.episode = R.episode
                         /\ TitleAndFloor(R, W)
                         /\ R.date > now - WindowDays
                         /\ check_if_continue_props(R.tags, W.includeprops,
                                                    W.excludeprops) = "True"
                         /\ fetched' = Append(fetched, [ id |-> R.id,
                                                         day |-> now ])
                         /\ failed' = 0
      /\ (wishlist = << >>) => (downloads = << >> /\ downloads' = << >>)
    ]_vars

\* A Download row has just been inserted for a release that the current
\* entry's filter lets pass, and the wishlist has a filter that another
\* persisted release of the same title does not pass.
C20_Witness ==
  /\ pc = "find"
  /\ wi > 0
  /\ Len(downloads) > committed
  /\ fetched # << >>
  /\ LET d == downloads[Len(downloads)]
     IN  /\ d.release_id = fetched[Len(fetched)].id
         /\ d.title = releases[d.release_id].title
         /\ Matches(releases[d.release_id], wishlist[wi], now)
  /\ \E r \in Range(releases) :
        /\ Selected(r, wishlist[wi], now)
        /\ ~ Matches(r, wishlist[wi], now)

\* Runs with an empty wishlist have finished and ingested releases, and no
\* Download row exists.
C20_WitnessEmptyWishlist ==
  /\ wishlist = << >>
  /\ status = "finished"
  /\ releases # << >>
  /\ downloads = << >>

\* Release r matches wish w at time t, written from the claim's words:
\* title ignoring case, episode at or above the floor, date inside the
\* window, property filter true.
MatchesWish(r, w, t) ==
  /\ TitleAndFloor(r, w)
  /\ r.date > t - WindowDays
  /\ check_if_continue_props(r.tags, w.includeprops, w.excludeprops) = "True"

\* C21: when find_releases returns (no download_episode call of the run
\* has raised), every persisted release that matches an entry of the
\* wishlist has a Download row for its title and episode, ignoring case.
C21_AllMatchesRecorded ==
  [][ (pc = "find" /\ pc' = "idle" /\ status' = "finished") =>
        \A n \in 1..Len(wishlist) : \A r \in Range(releases') :
           MatchesWish(r, wishlist[n], now) =>
              \E m \in 1..Len(downloads') : SameEpisode(downloads'[m], r)
    ]_vars

\* find_releases has returned from a run that fetched a release; two
\* releases of different episodes match an entry and both episodes have a
\* Download row, and a third matching release was not fetched itself
\* because its episode was recorded through another release.
C21_Witness ==
  /\ pc = "idle"
  /\ status = "finished"
  /\ failed = 0
  /\ attempted # { }
  /\ \E n \in 1..Len(wishlist) : \E r1, r2, r3 \in Range(releases) :
        /\ MatchesWish(r1, wishlist[n], now)
        /\ MatchesWish(r2, wishlist[n], now)
        /\ MatchesWish(r3, wishlist[n], now)
        /\ ~ SameEpisode(r1, r2)
        /\ SameEpisode(r1, r3)
        /\ r1.id \in attempted
        /\ r3.id \notin FetchedIds
        /\ Recorded(r1) /\ Recorded(r2) /\ Recorded(r3)

\* The wish has a pattern that is the empty text.
HasEmptyPattern(w) == w.includeprops = << >> \/ w.excludeprops = << >>

\* C22: check_if_continue_props returns False when includeprops or
\* excludeprops is the empty text, for every tags and every value of the
\* other pattern (None, empty, one that compiles, one that does not); and
\* download_episode is never called while an entry with an empty pattern
\* is processed.
C22_EmptyPatternNeverPasses ==
  /\ \A tags \in PropTags : \A other \in PropPatterns :
        /\ check_if_continue_props(tags, << >>, other) = "False"
        /\ check_if_continue_props(tags, other, << >>) = "False"
  /\ [][ (attempted' # attempted \/ fetched' # fetched
            \/ Len(downloads') > Len(downloads))
           => (pc = "find" => ~ HasEmptyPattern(wishlist[wi])) ]_vars

\* A run has finished that processed an entry with an empty includeprops
\* whose query returned a release inside the window; nothing was fetched
\* and there is no Download row.
C22_Witness ==
  /\ pc = "idle"
  /\ status = "finished"
  /\ runs = 1
  /\ Len(wishlist) = 1
  /\ HasEmptyPattern(wishlist[1])
  /\ \E r \in Range(releases) : Selected(r, wishlist[1], now)
  /\ attempted = { }
  /\ fetched = << >>
  /\ downloads = << >>

\* The release fetched by this step, if download_episode returned in it.
FetchedNow(r) == fetched' = Append(fetched, [ id |-> r.id, day |-> now ])

\* C23: once a Download row has existed for a title and episode (one is
\* inserted after every download_episode that returns, line 124), no release
\* persisted after the downloaded one and with the same title and
\* episode, ignoring case, is fetched any more, for any entry of the
\* wishlist.
C23_DownloadedIsTerminal ==
  [][ \A r \in Range(releases) :
        FetchedNow(r) =>
           \A i \in 1..Len(fetched) :
              ~ ( /\ r.id > fetched[i].id
                  /\ SameEpisode(releases[fetched[i].id], r) ) ]_vars

\* C23 for the Download rows that are in the table: no release is fetched
\* whose title and episode, ignoring case, a Download row carries,
\* whatever the filter of the entry being processed.
C23_RecordedIsNotFetched ==
  [][ \A r \in Range(releases) :
        FetchedNow(r) =>
           \A n \in 1..Len(downloads) : ~ SameEpisode(downloads[n], r) ]_vars

\* An entry's filter rejects the release a Download row was made for and
\* lets another release of the same episode pass; that release has been
\* skipped and not fetched.
C23_Witness ==
  /\ pc = "find"
  /\ wi > 0
  /\ \E n \in 1..Len(downloads) : \E r \in Range(releases) :
        LET got == releases[downloads[n].release_id]
        IN  /\ r # got
            /\ SameEpisode(got, r)
            /\ Selected(got, wishlist[wi], now)
            /\ ~ Matches(got, wishlist[wi], now)
            /\ Matches(r, wishlist[wi], now)
            /\ r \notin Range(rows)
            /\ r.id \notin FetchedIds

====
